---------------------------- MODULE Spec2Model ----------------------------
(***************************************************************************)
(* markupify: a builder of HTML markup.  tags.py holds the generic        *)
(* Element (construction, attribute and style serialisation, rendering,   *)
(* the + operator) and one subclass per HTML tag; page.py holds HTMLPage,  *)
(* which assembles a doctype, a head and a body.                          *)
(*                                                                         *)
(* A Python str is modelled as a sequence of one-character strings, so    *)
(* lower-casing, stripping, replacing and concatenation are computed       *)
(* character by character.  Python objects live on a heap (elems); a       *)
(* Python value is a record with a kind.                                   *)
(*                                                                         *)
(* The parameter annotation at tags.py:32 (Optional with two arguments)    *)
(* is evaluated when the class body runs; the model describes the bodies   *)
(* of the functions, i.e. the module with annotations unevaluated.         *)
(***************************************************************************)
EXTENDS Integers, Sequences, FiniteSets, TLC

VARIABLES
    elems,   \* the heap of Element objects, in order of creation
    page,    \* the HTMLPage object: [made, lang, head, body] (head, body: heap ids)
    last     \* the last call: its name, arguments, outcome and returned value

vars == <<elems, page, last>>

---------------------------------------------------------------------------
(* Bounds of the model.                                                    *)

\* number of Element objects the caller keeps; an element constructed when
\* that many are kept is a temporary, seen only in the record of the call
MaxElems == 1
\* longest content buffer a mutating call may still extend
MaxContent == 2
\* longest attribute buffer a mutating call may still extend
MaxProps == 8
\* longest style buffer a mutating call may still extend
MaxStyle == 1
\* heading levels tried are 0 .. MaxLevel
MaxLevel == 7

---------------------------------------------------------------------------
(* Python str operations, on sequences of characters.                      *)

LowerChar(c) ==
    CASE c = "A" -> "a" [] c = "B" -> "b" [] c = "C" -> "c" [] c = "D" -> "d"
      [] c = "E" -> "e" [] c = "F" -> "f" [] c = "G" -> "g" [] c = "H" -> "h"
      [] c = "I" -> "i" [] c = "J" -> "j" [] c = "K" -> "k" [] c = "L" -> "l"
      [] c = "M" -> "m" [] c = "N" -> "n" [] c = "O" -> "o" [] c = "P" -> "p"
      [] c = "Q" -> "q" [] c = "R" -> "r" [] c = "S" -> "s" [] c = "T" -> "t"
      [] c = "U" -> "u" [] c = "V" -> "v" [] c = "W" -> "w" [] c = "X" -> "x"
      [] c = "Y" -> "y" [] c = "Z" -> "z" [] OTHER -> c

\* the str s as it is, in the place of a conversion
Verbatim(s) == s

\* str.lower()
Lower(s) == [i \in 1..Len(s) |-> LowerChar(s[i])]

\* str.replace(a, b) for one-character a and b
Replace(s, a, b) == [i \in 1..Len(s) |-> IF s[i] = a THEN b ELSE s[i]]

\* index of the first character of s not in cs (Len(s)+1 when there is none)
FirstNotIn(s, cs) ==
    IF \E i \in 1..Len(s) : s[i] \notin cs
    THEN CHOOSE i \in 1..Len(s) : s[i] \notin cs /\ \A j \in 1..(i-1) : s[j] \in cs
    ELSE Len(s) + 1

\* index of the last character of s not in cs (0 when there is none)
LastNotIn(s, cs) ==
    IF \E i \in 1..Len(s) : s[i] \notin cs
    THEN CHOOSE i \in 1..Len(s) : s[i] \notin cs /\ \A j \in (i+1)..Len(s) : s[j] \in cs
    ELSE 0

\* str.strip(chars): leading and trailing characters of cs removed
StripChars(s, cs) == SubSeq(s, FirstNotIn(s, cs), LastNotIn(s, cs))

Whitespace == {" ", "\t", "\n", "\r"}

\* str.strip()
Strip(s) == StripChars(s, Whitespace)

\* whether sub occurs in s as a contiguous substring (the in operator on str)
Contains(s, sub) ==
    \E i \in 0..(Len(s) - Len(sub)) : SubSeq(s, i + 1, i + Len(sub)) = sub

\* str.startswith / str.endswith
EndsWith(s, p) == Len(p) <= Len(s) /\ SubSeq(s, Len(s) - Len(p) + 1, Len(s)) = p

\* decimal digits of a natural number (str(int))
RECURSIVE Digits(_)
Digits(n) ==
    LET d == <<"0","1","2","3","4","5","6","7","8","9">>
    IN  IF n < 10 THEN <<d[n + 1]>> ELSE Digits(n \div 10) \o <<d[(n % 10) + 1]>>

---------------------------------------------------------------------------
(* Python values.  kind is "str", "int", "bool", "none", "elem" (n is the   *)
(* heap id), "dict" (d is the sequence of <<key, value>> items, in          *)
(* insertion order, keys and values str), "list" (the empty list) or       *)
(* "tuple" (the one-element tuple (s,)).                                    *)

VStr(s) == [kind |-> "str", s |-> s, n |-> 0, d |-> <<>>]
VInt(n) == [kind |-> "int", s |-> <<>>, n |-> n, d |-> <<>>]
VBool(b) == [kind |-> "bool", s |-> <<>>, n |-> IF b THEN 1 ELSE 0, d |-> <<>>]
VNone == [kind |-> "none", s |-> <<>>, n |-> 0, d |-> <<>>]
VElem(id) == [kind |-> "elem", s |-> <<>>, n |-> id, d |-> <<>>]
VDict(d) == [kind |-> "dict", s |-> <<>>, n |-> 0, d |-> d]
VList == [kind |-> "list", s |-> <<>>, n |-> 0, d |-> <<>>]
VTuple(s) == [kind |-> "tuple", s |-> s, n |-> 0, d |-> <<>>]

\* bool(v): the truth value Python gives v
Truthy(v) ==
    CASE v.kind = "str" -> v.s /= <<>>
      [] v.kind = "int" -> v.n /= 0
      [] v.kind = "bool" -> v.n = 1
      [] v.kind = "none" -> FALSE
      [] v.kind = "elem" -> TRUE
      [] v.kind = "dict" -> v.d /= <<>>
      [] v.kind = "list" -> FALSE
      [] v.kind = "tuple" -> TRUE

\* repr of a str without quotes or escapes in it
ReprStr(s) == <<"'">> \o s \o <<"'">>

\* repr of the items of a dict from position i on
RECURSIVE ReprItems(_, _)
ReprItems(d, i) ==
    IF i > Len(d) THEN <<>>
    ELSE ReprStr(d[i][1]) \o <<":", " ">> \o ReprStr(d[i][2])
         \o (IF i < Len(d) THEN <<",", " ">> ELSE <<>>) \o ReprItems(d, i + 1)

\* keyword arguments: a sequence of <<name, value>> with distinct names
KwHas(kw, name) == \E i \in 1..Len(kw) : kw[i][1] = name
KwGet(kw, name) == kw[CHOOSE i \in 1..Len(kw) : kw[i][1] = name][2]
KwDel(kw, name) == SelectSeq(kw, LAMBDA p : p[1] /= name)
KwDistinct(kw) == \A i, j \in 1..Len(kw) : i /= j => kw[i][1] /= kw[j][1]

---------------------------------------------------------------------------
(* Element: rendering and the attribute, style and content buffers.        *)

\* Render with the self-closed shorthand for an element without content
RenderShorthand(e) ==
    <<"<">> \o e.tag_name
    \o (IF e.props /= <<>> THEN <<" ">> \o Strip(e.props) ELSE <<>>)
    \o (IF e.has_end_tag /\ e.tag_content /= <<>>
        THEN <<">">> \o e.tag_content \o <<"<", "/">> \o e.tag_name \o <<">">>
        ELSE e.tag_content \o <<" ", "/", ">">>)

\* Element.render (tags.py:107-132)
Render(e) ==
    <<"<">> \o e.tag_name
    \o (IF e.props /= <<>> THEN <<" ">> \o Strip(e.props) ELSE <<>>)
    \o (IF e.has_end_tag THEN <<">">> ELSE <<>>)
    \o (IF e.tag_content /= <<>> THEN e.tag_content ELSE <<>>)
    \o (IF e.has_end_tag THEN <<"<", "/">> \o e.tag_name \o <<">">>
        ELSE <<" ", "/", ">">>)

\* str(v), with heap the Element objects an "elem" value refers to
PyStr(v, heap) ==
    CASE v.kind = "str" -> v.s
      [] v.kind = "int" -> Digits(v.n)
      [] v.kind = "bool" -> IF v.n = 1 THEN <<"T","r","u","e">>
                            ELSE <<"F","a","l","s","e">>
      [] v.kind = "none" -> <<"N","o","n","e">>
      [] v.kind = "elem" -> Render(heap[v.n])
      [] v.kind = "dict" -> <<"{">> \o ReprItems(v.d, 1) \o <<"}">>
      [] v.kind = "list" -> <<"[", "]">>
      [] v.kind = "tuple" -> <<"(">> \o ReprStr(v.s) \o <<",", ")">>

\* AddProperty that keeps one attribute of a name: when the buffer has the
\* name already, the new attribute takes the place of the buffer's last one
AddPropertyOverwriting(e, name, value) ==
    LET attr == name \o <<"=", "\"">> \o value \o <<"\"", " ">>
        has == \E i \in 1..Len(e.props) :
                  /\ i + Len(name) <= Len(e.props)
                  /\ SubSeq(e.props, i, i + Len(name)) = name \o <<"=">>
    IN  [e EXCEPT !.props = IF has THEN attr ELSE @ \o attr]

\* AddProperty that converts the underscores of the name to hyphens
AddPropertyHyphenated(e, name, value) ==
    [e EXCEPT !.props = @ \o Replace(name, "_", "-") \o <<"=", "\"">> \o value \o <<"\"", " ">>]

\* Element.add_property (tags.py:134-142); value is already a str
AddProperty(e, name, value) ==
    [e EXCEPT !.props = @ \o name \o <<"=", "\"">> \o value \o <<"\"", " ">>]

\* NormName without the replacement of underscores
NormNameNoReplace(name) == StripChars(name, {"_"})

\* the name normalisation of add_properties and add_styles (tags.py:152-153, 174-175)
NormName(name) == Replace(StripChars(name, {"_"}), "_", "-")

\* Element.add_properties (tags.py:144-154), items i.. of kw
RECURSIVE AddProperties(_, _, _, _)
AddProperties(e, kw, i, heap) ==
    IF i > Len(kw) THEN e
    ELSE AddProperties(AddProperty(e, NormName(kw[i][1]), PyStr(kw[i][2], heap)),
                       kw, i + 1, heap)

\* AddStyle without the semicolon that ends a declaration
AddStyleNoSemicolon(e, name, value) ==
    [e EXCEPT !.style = @ \o name \o <<":", " ">> \o value]

\* Element.add_style (tags.py:156-164)
AddStyle(e, name, value) ==
    [e EXCEPT !.style = @ \o name \o <<":", " ">> \o value \o <<";">>]

\* Element.add_styles (tags.py:166-176), items i.. of the mapping d
RECURSIVE AddStyles(_, _, _)
AddStyles(e, d, i) ==
    IF i > Len(d) THEN e
    ELSE AddStyles(AddStyle(e, NormName(d[i][1]), d[i][2]), d, i + 1)

\* "".join(tags) for str items (tags.py:52, 185)
RECURSIVE Join(_, _)
Join(tags, i) == IF i > Len(tags) THEN <<>> ELSE tags[i].s \o Join(tags, i + 1)

\* Element.add_content (tags.py:178-185); a non-str item makes join raise
AddContent(e, tags) ==
    IF \E i \in 1..Len(tags) : tags[i].kind /= "str"
    THEN [status |-> "TypeError", elem |-> e]
    ELSE [status |-> "ok", elem |-> [e EXCEPT !.tag_content = @ \o Join(tags, 1)]]

---------------------------------------------------------------------------
(* Element construction.  A call is [pos, kw]: the positional arguments     *)
(* and the keyword arguments as Python receives them.                       *)

S_tag_name == <<"t","a","g","_","n","a","m","e">>
S_has_end_tag == <<"h","a","s","_","e","n","d","_","t","a","g">>
S_tag_content == <<"t","a","g","_","c","o","n","t","e","n","t">>
S_style == <<"s","t","y","l","e">>
S_div == <<"d","i","v">>

NoElem == [tag_name |-> <<>>, has_end_tag |-> TRUE, tag_content |-> <<>>,
           props |-> <<>>, style |-> <<>>, properties |-> <<>>]

Raise(err) == [status |-> err, elem |-> NoElem]

\* How Python binds a call to the signature
\* (self, tag_name="div", has_end_tag=True, *tags, **props) (tags.py:28-34):
\* positional arguments fill tag_name and has_end_tag first, the rest are
\* tags; a keyword naming a parameter already filled, or given twice, is a
\* TypeError; the other keywords are props.
BindElement(call) ==
    LET pos == call.pos
        kw == call.kw
        clash == \/ ~KwDistinct(kw)
                 \/ (Len(pos) >= 1 /\ KwHas(kw, S_tag_name))
                 \/ (Len(pos) >= 2 /\ KwHas(kw, S_has_end_tag))
    IN  [clash |-> clash,
         tag_name |-> IF Len(pos) >= 1 THEN pos[1]
                      ELSE IF KwHas(kw, S_tag_name) THEN KwGet(kw, S_tag_name)
                      ELSE VStr(S_div),
         has_end_tag |-> IF Len(pos) >= 2 THEN pos[2]
                         ELSE IF KwHas(kw, S_has_end_tag) THEN KwGet(kw, S_has_end_tag)
                         ELSE VBool(TRUE),
         tags |-> SubSeq(pos, 3, Len(pos)),
         props |-> KwDel(KwDel(kw, S_tag_name), S_has_end_tag)]

\* InitStyleAndProps that adds the style attribute after the other keywords
InitStyleLast(e, heap) ==
    LET given == KwHas(e.properties, S_style)
        sp == IF given THEN KwGet(e.properties, S_style) ELSE VNone
        e0 == [e EXCEPT !.properties = KwDel(@, S_style)]
        e1 == IF ~Truthy(sp) THEN e0
              ELSE IF sp.kind = "str" THEN [e0 EXCEPT !.style = @ \o sp.s]
              ELSE AddStyles(e0, sp.d, 1)
        e2 == AddProperties(e1, e0.properties, 1, heap)
    IN  IF Truthy(sp) /\ sp.kind \notin {"str", "dict"} THEN Raise("TypeError")
        ELSE [status |-> "ok",
              elem |-> IF e2.style /= <<>> THEN AddProperty(e2, S_style, e2.style) ELSE e2]

\* the style branch of Element.__init__ (tags.py:58-69) on the element e
\* whose properties still hold the style key
InitStyleAndProps(e, heap) ==
    LET given == KwHas(e.properties, S_style)
        sp == IF given THEN KwGet(e.properties, S_style) ELSE VNone
        e0 == [e EXCEPT !.properties = KwDel(@, S_style)]
        e1 == IF ~Truthy(sp) THEN e0
              ELSE IF sp.kind = "str" THEN [e0 EXCEPT !.style = @ \o sp.s]
              ELSE AddStyles(e0, sp.d, 1)
        e2 == IF e1.style /= <<>> THEN AddProperty(e1, S_style, e1.style) ELSE e1
    IN  IF Truthy(sp) /\ sp.kind \notin {"str", "dict"} THEN Raise("TypeError")
        ELSE [status |-> "ok", elem |-> AddProperties(e2, e0.properties, 1, heap)]

\* ElementInit without the check of tags.py:44-48
ElementInitNoVoidCheck(call, heap) ==
    LET b == BindElement(call)
    IN  IF b.clash THEN Raise("TypeError")
        ELSE IF b.tag_name.kind /= "str" THEN Raise("AttributeError")
        ELSE IF \E i \in 1..Len(b.tags) : b.tags[i].kind /= "str" THEN Raise("TypeError")
        ELSE InitStyleAndProps(
                 [tag_name |-> Lower(b.tag_name.s),
                  has_end_tag |-> Truthy(b.has_end_tag),
                  tag_content |-> Join(b.tags, 1),
                  props |-> <<>>,
                  style |-> <<>>,
                  properties |-> b.props], heap)

\* Element.__init__ (tags.py:28-69)
ElementInit(call, heap) ==
    LET b == BindElement(call)
    IN  IF b.clash THEN Raise("TypeError")
        ELSE IF ~Truthy(b.has_end_tag) /\ b.tags /= <<>> THEN Raise("ValueError")
        ELSE IF b.tag_name.kind /= "str" THEN Raise("AttributeError")
        ELSE IF \E i \in 1..Len(b.tags) : b.tags[i].kind /= "str" THEN Raise("TypeError")
        ELSE InitStyleAndProps(
                 [tag_name |-> Lower(b.tag_name.s),
                  has_end_tag |-> Truthy(b.has_end_tag),
                  tag_content |-> Join(b.tags, 1),
                  props |-> <<>>,
                  style |-> <<>>,
                  properties |-> b.props], heap)

\* Element.__add__ (tags.py:89-105): the call it makes to Element
AddCall(e, other, heap) ==
    [pos |-> <<>>,
     kw |-> <<<<S_tag_name, VStr(e.tag_name)>>,
              <<S_has_end_tag, VBool(e.has_end_tag)>>,
              <<S_tag_content, VStr(e.tag_content \o PyStr(other, heap))>>>>
            \o e.properties]

\* Element.__add__ (tags.py:89-105)
ElementAdd(e, other, heap) == ElementInit(AddCall(e, other, heap), heap)

---------------------------------------------------------------------------
(* The tag classes (tags.py:198-2346).  Each entry of the catalog is one    *)
(* subclass of Element: cls is the class, doc the tag its docstring says it *)
(* represents, arg the string literal its __init__ passes to                *)
(* Element.__init__, and form the shape of that __init__:                   *)
(*   "children"  def __init__(self, *tags, **props):                        *)
(*                   super().__init__(tag_name=arg, *tags, **props)         *)
(*   "void"      def __init__(self, **props):                               *)
(*                   super().__init__(tag_name=arg, has_end_tag=False, **props) *)
(*   "bare"      def __init__(self):                                        *)
(*                   super().__init__(tag_name=arg, has_end_tag=False)      *)
(*   "content"   def __init__(self, **props):                               *)
(*                   super().__init__(tag_content=arg, has_end_tag=False, **props) *)
(* A, H and Style have __init__ bodies of their own and follow.            *)

Catalog == {
    [cls |-> "Abbr", form |-> "children", arg |-> <<"a","b","b","r">>, doc |-> <<"a","b","b","r">>],
    [cls |-> "Address", form |-> "children", arg |-> <<"a","d","d","r","e","s","s">>, doc |-> <<"a","d","d","r","e","s","s">>],
    [cls |-> "Area", form |-> "void", arg |-> <<"a","r","e","a">>, doc |-> <<"a","r","e","a">>],
    [cls |-> "Article", form |-> "children", arg |-> <<"a","r","t","i","c","l","e">>, doc |-> <<"a","r","t","i","c","l","e">>],
    [cls |-> "Aside", form |-> "children", arg |-> <<"a","s","i","d","e">>, doc |-> <<"a","s","i","d","e">>],
    [cls |-> "Audio", form |-> "children", arg |-> <<"a","u","d","i","o">>, doc |-> <<"a","u","d","i","o">>],
    [cls |-> "B", form |-> "children", arg |-> <<"b">>, doc |-> <<"b">>],
    [cls |-> "Base", form |-> "void", arg |-> <<"b","a","s","e">>, doc |-> <<"b","a","s","e">>],
    [cls |-> "Bdi", form |-> "children", arg |-> <<"b","d","i">>, doc |-> <<"b","d","i">>],
    [cls |-> "Bdo", form |-> "children", arg |-> <<"b","d","o">>, doc |-> <<"b","d","o">>],
    [cls |-> "BlockQuote", form |-> "children", arg |-> <<"b","l","o","c","k","q","u","o","t","e">>, doc |-> <<"b","l","o","c","k","q","u","o","t","e">>],
    [cls |-> "Body", form |-> "children", arg |-> <<"b","o","d","y">>, doc |-> <<"b","o","d","y">>],
    [cls |-> "Br", form |-> "bare", arg |-> <<"b","r">>, doc |-> <<"b","r">>],
    [cls |-> "Button", form |-> "children", arg |-> <<"b","u","t","t","o","n">>, doc |-> <<"b","u","t","t","o","n">>],
    [cls |-> "Canvas", form |-> "children", arg |-> <<"c","a","n","v","a","s">>, doc |-> <<"c","a","n","v","a","s">>],
    [cls |-> "Caption", form |-> "children", arg |-> <<"c","a","p","t","i","o","n">>, doc |-> <<"c","a","p","t","i","o","n">>],
    [cls |-> "Circle", form |-> "content", arg |-> <<"c","i","r","c","l","e">>, doc |-> <<"c","i","r","c","l","e">>],
    [cls |-> "Cite", form |-> "children", arg |-> <<"c","i","t","e">>, doc |-> <<"c","i","t","e">>],
    [cls |-> "Code", form |-> "children", arg |-> <<"c","o","d","e">>, doc |-> <<"c","o","d","e">>],
    [cls |-> "Col", form |-> "content", arg |-> <<"c","o","l">>, doc |-> <<"c","o","l">>],
    [cls |-> "ColGroup", form |-> "children", arg |-> <<"c","o","l","g","r","o","u","p">>, doc |-> <<"c","o","l","g","r","o","u","p">>],
    [cls |-> "Data", form |-> "children", arg |-> <<"d","a","t","a">>, doc |-> <<"d","a","t","a">>],
    [cls |-> "DataIterable", form |-> "children", arg |-> <<"d","a","t","a","l","i","s","t">>, doc |-> <<"d","a","t","a","l","i","s","t">>],
    [cls |-> "Dd", form |-> "children", arg |-> <<"d","d">>, doc |-> <<"d","d">>],
    [cls |-> "Defs", form |-> "children", arg |-> <<"d","e","f","s">>, doc |-> <<"d","e","f","s">>],
    [cls |-> "Del", form |-> "children", arg |-> <<"d","e","l">>, doc |-> <<"d","e","l">>],
    [cls |-> "Details", form |-> "children", arg |-> <<"d","e","t","a","i","l","s">>, doc |-> <<"d","e","t","a","i","l","s">>],
    [cls |-> "Dfn", form |-> "children", arg |-> <<"d","f","n">>, doc |-> <<"d","f","n">>],
    [cls |-> "Dialog", form |-> "children", arg |-> <<"d","i","a","l","o","g">>, doc |-> <<"d","i","a","l","o","g">>],
    [cls |-> "Div", form |-> "children", arg |-> <<"d","i","v">>, doc |-> <<"d","i","v">>],
    [cls |-> "Dl", form |-> "children", arg |-> <<"d","l">>, doc |-> <<"d","l">>],
    [cls |-> "Dt", form |-> "children", arg |-> <<"d","t">>, doc |-> <<"d","t">>],
    [cls |-> "Ellipse", form |-> "void", arg |-> <<"e","l","l","i","p","s","e">>, doc |-> <<"e","l","l","i","p","s","e">>],
    [cls |-> "Em", form |-> "children", arg |-> <<"e","m">>, doc |-> <<"e","m">>],
    [cls |-> "Embed", form |-> "void", arg |-> <<"e","m","b","e","d">>, doc |-> <<"e","m","b","e","d">>],
    [cls |-> "FieldSet", form |-> "children", arg |-> <<"f","i","e","l","d","s","e","t">>, doc |-> <<"f","i","e","l","d","s","e","t">>],
    [cls |-> "FigCaption", form |-> "children", arg |-> <<"f","i","g","c","a","p","t","i","o","n">>, doc |-> <<"f","i","g","c","a","p","t","i","o","n">>],
    [cls |-> "Figure", form |-> "children", arg |-> <<"f","i","g","u","r","e">>, doc |-> <<"f","i","g","u","r","e">>],
    [cls |-> "Footer", form |-> "children", arg |-> <<"f","o","o","t","e","r">>, doc |-> <<"f","o","o","t","e","r">>],
    [cls |-> "Form", form |-> "children", arg |-> <<"f","o","r","m">>, doc |-> <<"f","o","r","m">>],
    [cls |-> "Head", form |-> "children", arg |-> <<"h","e","a","d">>, doc |-> <<"h","e","a","d">>],
    [cls |-> "Header", form |-> "children", arg |-> <<"h","e","a","d","e","r">>, doc |-> <<"h","e","a","d","e","r">>],
    [cls |-> "HGroup", form |-> "children", arg |-> <<"h","g","r","o","u","p">>, doc |-> <<"h","g","r","o","u","p">>],
    [cls |-> "Hr", form |-> "bare", arg |-> <<"h","r">>, doc |-> <<"h","r">>],
    [cls |-> "Html", form |-> "children", arg |-> <<"h","t","m","l">>, doc |-> <<"h","t","m","l">>],
    [cls |-> "I", form |-> "children", arg |-> <<"i">>, doc |-> <<"i">>],
    [cls |-> "IFrame", form |-> "children", arg |-> <<"i","f","r","a","m","e">>, doc |-> <<"i","f","r","a","m","e">>],
    [cls |-> "Img", form |-> "void", arg |-> <<"i","m","g">>, doc |-> <<"i","m","g">>],
    [cls |-> "Input", form |-> "void", arg |-> <<"i","n","p","u","t">>, doc |-> <<"i","n","p","u","t">>],
    [cls |-> "Ins", form |-> "children", arg |-> <<"i","n","s">>, doc |-> <<"i","n","s">>],
    [cls |-> "Kbd", form |-> "children", arg |-> <<"k","b","d">>, doc |-> <<"k","b","d">>],
    [cls |-> "Label", form |-> "children", arg |-> <<"l","a","b","e","l">>, doc |-> <<"l","a","b","e","l">>],
    [cls |-> "Legend", form |-> "children", arg |-> <<"l","e","g","e","n","d">>, doc |-> <<"l","e","g","e","n","d">>],
    [cls |-> "Li", form |-> "children", arg |-> <<"l","i">>, doc |-> <<"l","i">>],
    [cls |-> "LinearGradient", form |-> "children", arg |-> <<"l","i","n","e","a","r","G","r","a","d","i","e","n","t">>, doc |-> <<"l","i","n","e","a","r","G","r","a","d","i","e","n","t">>],
    [cls |-> "Link", form |-> "void", arg |-> <<"l","i","n","k">>, doc |-> <<"l","i","n","k">>],
    [cls |-> "Main", form |-> "children", arg |-> <<"m","a","i","n">>, doc |-> <<"m","a","i","n">>],
    [cls |-> "Map", form |-> "children", arg |-> <<"m","a","p">>, doc |-> <<"m","a","p">>],
    [cls |-> "Mark", form |-> "children", arg |-> <<"m","a","r","k">>, doc |-> <<"m","a","r","k">>],
    [cls |-> "Menu", form |-> "children", arg |-> <<"m","e","n","u">>, doc |-> <<"m","e","n","u">>],
    [cls |-> "Meta", form |-> "void", arg |-> <<"m","e","t","a">>, doc |-> <<"m","e","t","a">>],
    [cls |-> "Meter", form |-> "children", arg |-> <<"m","e","t","e","r">>, doc |-> <<"m","e","t","e","r">>],
    [cls |-> "Nav", form |-> "children", arg |-> <<"n","a","v">>, doc |-> <<"n","a","v">>],
    [cls |-> "NoScript", form |-> "children", arg |-> <<"n","o","s","c","r","i","p","t">>, doc |-> <<"n","o","s","c","r","i","p","t">>],
    [cls |-> "Object", form |-> "children", arg |-> <<"o","p","t","i","o","n">>, doc |-> <<"o","b","j","e","c","t">>],
    [cls |-> "Ol", form |-> "children", arg |-> <<"o","l">>, doc |-> <<"o","l">>],
    [cls |-> "OptGroup", form |-> "children", arg |-> <<"o","p","t","g","r","o","u","p">>, doc |-> <<"o","p","t","g","r","o","u","p">>],
    [cls |-> "Option", form |-> "children", arg |-> <<"o","p","t","i","o","n">>, doc |-> <<"o","p","t","i","o","n">>],
    [cls |-> "Output", form |-> "children", arg |-> <<"o","u","t","p","u","t">>, doc |-> <<"o","u","t","p","u","t">>],
    [cls |-> "P", form |-> "children", arg |-> <<"p">>, doc |-> <<"p">>],
    [cls |-> "Param", form |-> "children", arg |-> <<"p","a","r","a","m">>, doc |-> <<"p","a","r","a","m">>],
    [cls |-> "Picture", form |-> "children", arg |-> <<"p","i","c","t","u","r","e">>, doc |-> <<"p","i","c","t","u","r","e">>],
    [cls |-> "Polygon", form |-> "void", arg |-> <<"p","o","l","y","g","o","n">>, doc |-> <<"p","o","l","y","g","o","n">>],
    [cls |-> "Pre", form |-> "children", arg |-> <<"p","r","e">>, doc |-> <<"p","r","e">>],
    [cls |-> "Progress", form |-> "children", arg |-> <<"p","r","o","g","r","e","s","s">>, doc |-> <<"p","r","o","g","r","e","s","s">>],
    [cls |-> "Q", form |-> "children", arg |-> <<"q">>, doc |-> <<"q">>],
    [cls |-> "Rect", form |-> "void", arg |-> <<"r","e","c","t">>, doc |-> <<"r","e","c","t">>],
    [cls |-> "Rp", form |-> "children", arg |-> <<"r","p">>, doc |-> <<"r","p">>],
    [cls |-> "Rt", form |-> "children", arg |-> <<"r","t">>, doc |-> <<"r","t">>],
    [cls |-> "Ruby", form |-> "children", arg |-> <<"r","u","b","y">>, doc |-> <<"r","u","b","y">>],
    [cls |-> "S", form |-> "children", arg |-> <<"s">>, doc |-> <<"s">>],
    [cls |-> "Samp", form |-> "children", arg |-> <<"s","a","m","p">>, doc |-> <<"s","a","m","p">>],
    [cls |-> "Script", form |-> "children", arg |-> <<"s","c","r","i","p","t">>, doc |-> <<"s","c","r","i","p","t">>],
    [cls |-> "Search", form |-> "children", arg |-> <<"s","e","a","r","c","h">>, doc |-> <<"s","e","a","r","c","h">>],
    [cls |-> "Section", form |-> "children", arg |-> <<"s","e","c","t","i","o","n">>, doc |-> <<"s","e","c","t","i","o","n">>],
    [cls |-> "Select", form |-> "children", arg |-> <<"s","e","l","e","c","t">>, doc |-> <<"s","e","l","e","c","t">>],
    [cls |-> "Small", form |-> "children", arg |-> <<"s","m","a","l","l">>, doc |-> <<"s","m","a","l","l">>],
    [cls |-> "Source", form |-> "void", arg |-> <<"s","o","u","r","c","e">>, doc |-> <<"s","o","u","r","c","e">>],
    [cls |-> "Span", form |-> "children", arg |-> <<"s","p","a","n">>, doc |-> <<"s","p","a","n">>],
    [cls |-> "Stop", form |-> "void", arg |-> <<"s","t","o","p">>, doc |-> <<"s","t","o","p">>],
    [cls |-> "Strong", form |-> "children", arg |-> <<"s","t","r","o","n","g">>, doc |-> <<"s","t","r","o","n","g">>],
    [cls |-> "Sub", form |-> "children", arg |-> <<"s","u","b">>, doc |-> <<"s","u","b">>],
    [cls |-> "Summary", form |-> "children", arg |-> <<"s","u","m","m","a","r","y">>, doc |-> <<"s","u","m","m","a","r","y">>],
    [cls |-> "Sup", form |-> "children", arg |-> <<"s","u","p">>, doc |-> <<"s","u","p">>],
    [cls |-> "Svg", form |-> "children", arg |-> <<"s","v","g">>, doc |-> <<"s","v","g">>],
    [cls |-> "Table", form |-> "children", arg |-> <<"t","a","b","l","e">>, doc |-> <<"t","a","b","l","e">>],
    [cls |-> "TBody", form |-> "children", arg |-> <<"t","b","o","d","y">>, doc |-> <<"t","b","o","d","y">>],
    [cls |-> "Td", form |-> "children", arg |-> <<"t","d">>, doc |-> <<"t","d">>],
    [cls |-> "Template", form |-> "children", arg |-> <<"t","e","m","p","l","a","t","e">>, doc |-> <<"t","e","m","p","l","a","t","e">>],
    [cls |-> "Text", form |-> "children", arg |-> <<"t","e","x","t">>, doc |-> <<"t","e","x","t">>],
    [cls |-> "Textarea", form |-> "children", arg |-> <<"t","e","x","t","a","r","e","a">>, doc |-> <<"t","e","x","t","a","r","e","a">>],
    [cls |-> "TFoot", form |-> "children", arg |-> <<"t","f","o","o","t">>, doc |-> <<"t","f","o","o","t">>],
    [cls |-> "Th", form |-> "children", arg |-> <<"t","h">>, doc |-> <<"t","h">>],
    [cls |-> "THead", form |-> "children", arg |-> <<"t","h","e","a","d">>, doc |-> <<"t","h","e","a","d">>],
    [cls |-> "Time", form |-> "children", arg |-> <<"t","i","m","e">>, doc |-> <<"t","i","m","e">>],
    [cls |-> "Title", form |-> "children", arg |-> <<"t","i","t","l","e">>, doc |-> <<"t","i","t","l","e">>],
    [cls |-> "Tr", form |-> "children", arg |-> <<"t","r">>, doc |-> <<"t","r">>],
    [cls |-> "Track", form |-> "children", arg |-> <<"t","r","a","c","k">>, doc |-> <<"t","r","a","c","k">>],
    [cls |-> "U", form |-> "children", arg |-> <<"u">>, doc |-> <<"u">>],
    [cls |-> "Ul", form |-> "children", arg |-> <<"u","l">>, doc |-> <<"u","l">>],
    [cls |-> "Var", form |-> "children", arg |-> <<"v","a","r">>, doc |-> <<"v","a","r">>],
    [cls |-> "Video", form |-> "children", arg |-> <<"v","i","d","e","o">>, doc |-> <<"v","i","d","e","o">>],
    [cls |-> "Wbr", form |-> "children", arg |-> <<"w","b","r">>, doc |-> <<"w","b","r">>]
}

CatalogEntry(cls) == CHOOSE c \in Catalog : c.cls = cls

S_href == <<"h","r","e","f">>
S_tags == <<"t","a","g","s">>
S_a == <<"a">>

\* the call a catalog class makes to Element.__init__; in Python a call
\* f(tag_name=x, *tags) passes tags positionally, before the keywords
SuperCall(c, tags, props) ==
    CASE c.form = "children" ->
            [pos |-> tags, kw |-> <<<<S_tag_name, VStr(c.arg)>>>> \o props]
      [] c.form = "void" ->
            [pos |-> <<>>,
             kw |-> <<<<S_tag_name, VStr(c.arg)>>, <<S_has_end_tag, VBool(FALSE)>>>> \o props]
      [] c.form = "bare" ->
            [pos |-> <<>>,
             kw |-> <<<<S_tag_name, VStr(c.arg)>>, <<S_has_end_tag, VBool(FALSE)>>>>]
      [] c.form = "content" ->
            [pos |-> <<>>,
             kw |-> <<<<S_tag_content, VStr(c.arg)>>, <<S_has_end_tag, VBool(FALSE)>>>> \o props]

\* cls(*tags, **props) for a catalog class: the class's own signature
\* rejects positional arguments it has no *tags for, and keywords it has no
\* **props for, with a TypeError
TagInit(cls, tags, props, heap) ==
    LET c == CatalogEntry(cls)
    IN  IF c.form /= "children" /\ tags /= <<>> THEN Raise("TypeError")
        ELSE IF c.form = "bare" /\ props /= <<>> THEN Raise("TypeError")
        ELSE ElementInit(SuperCall(c, tags, props), heap)

\* A.__init__ (tags.py:203-217)
AInit(link, tags, props, heap) ==
    ElementInit([pos |-> tags,
                 kw |-> <<<<S_tag_name, VStr(S_a)>>, <<S_href, link>>>> \o props], heap)

\* HInit with the range check off by one at both ends
HInitOffByOne(level, tags, props, heap) ==
    IF ~(0 <= level /\ level <= 7) THEN Raise("ValueError")
    ELSE ElementInit([pos |-> tags,
                      kw |-> <<<<S_tag_name, VStr(<<"h">> \o Digits(level))>>>> \o props],
                     heap)

\* H.__init__ (tags.py:1015-1033), level an int
HInit(level, tags, props, heap) ==
    IF ~(1 <= level /\ level <= 6) THEN Raise("ValueError")
    ELSE ElementInit([pos |-> tags,
                      kw |-> <<<<S_tag_name, VStr(<<"h">> \o Digits(level))>>>> \o props],
                     heap)

\* the declarations Style.__init__ joins for a mapping value (tags.py:1939-1941)
RECURSIVE StyleDecls(_, _)
StyleDecls(d, i) ==
    IF i > Len(d) THEN <<>>
    ELSE Replace(d[i][1], "_", "-") \o <<":", " ">> \o d[i][2] \o <<";">>
         \o StyleDecls(d, i + 1)

\* the text Style.__init__ computes from its keywords (tags.py:1936-1945)
RECURSIVE StyleText(_, _)
StyleText(props, i) ==
    IF i > Len(props) THEN <<>>
    ELSE props[i][1] \o <<" ">>
         \o (IF props[i][2].kind = "dict" THEN StyleDecls(props[i][2].d, 1)
             ELSE props[i][2].s)
         \o StyleText(props, i + 1)

\* Style.__init__ (tags.py:1930-1949)
StyleInit(props, heap) ==
    IF \E i \in 1..Len(props) : props[i][2].kind \notin {"dict", "str"}
    THEN Raise("TypeError")
    ELSE ElementInit([pos |-> <<>>,
                      kw |-> <<<<S_tag_name, VStr(S_style)>>,
                               <<S_tags, VTuple(StyleText(props, 1))>>>> \o props],
                     heap)

---------------------------------------------------------------------------
(* HTMLPage (page.py).                                                      *)

S_head == <<"h","e","a","d">>
S_body == <<"b","o","d","y">>
S_lang == <<"l","a","n","g">>
S_en == <<"e","n">>
S_html == <<"h","t","m","l">>

\* content += str(tag) for tag in args (page.py:106-108, 123-125, 154-155)
RECURSIVE ConcatStr(_, _, _)
ConcatStr(args, i, heap) ==
    IF i > Len(args) THEN <<>> ELSE PyStr(args[i], heap) \o ConcatStr(args, i + 1, heap)

\* Head(tag_content=content, **props) in set_head (page.py:106-109)
SetHeadElement(args, props, heap) ==
    TagInit("Head", <<>>, <<<<S_tag_content, VStr(ConcatStr(args, 1, heap))>>>> \o props, heap)

\* Body(tag_content=content, **props) in set_body (page.py:123-126)
SetBodyElement(args, props, heap) ==
    TagInit("Body", <<>>, <<<<S_tag_content, VStr(ConcatStr(args, 1, heap))>>>> \o props, heap)

\* DocType.render (tags.py:845-851)
DocTypeRender(doc_type) ==
    <<"<","!","D","O","C","T","Y","P","E"," ">> \o doc_type \o <<">">>

\* HTMLPage.html (page.py:81-93)
PageHtml(pg, heap) ==
    TagInit("Html", <<>>,
            <<<<S_tag_content, VStr(Render(heap[pg.head]) \o Render(heap[pg.body]))>>,
              <<S_lang, VStr(pg.lang)>>>>,
            heap)

\* HTMLPage.render (page.py:61-68) with doc_type (page.py:70-79)
PageRender(pg, heap) == DocTypeRender(S_html) \o Render(PageHtml(pg, heap).elem)

---------------------------------------------------------------------------
(* The state machine: one action per call of the library.                   *)

NoPage == [made |-> FALSE, lang |-> <<>>, head |-> 0, body |-> 0]
NoCall == [pos |-> <<>>, kw |-> <<>>]

\* the record of a call: op the function, id the element it acted on or
\* created (0 when none), call its arguments, status "ok" or the exception,
\* out the str it returned, elem the element it returned, heap0 and page0
\* the heap and the page before the call
Called(op, id, call, status, out, elem) ==
    [op |-> op, id |-> id, call |-> call, status |-> status, out |-> out,
     elem |-> elem, heap0 |-> elems, page0 |-> page]

Init ==
    /\ elems = <<>>
    /\ page = NoPage
    /\ last = [op |-> "none", id |-> 0, call |-> NoCall, status |-> "ok", out |-> <<>>,
               elem |-> NoElem, heap0 |-> <<>>, page0 |-> NoPage]

\* every Element a value of the sequence vs refers to is on the heap
RefsOk(vs) == \A i \in 1..Len(vs) : vs[i].kind = "elem" => vs[i].n \in 1..Len(elems)

\* the outcome r of a constructor: the new element is kept on the heap
\* while there is room (cap), and is a temporary otherwise
Construct(op, call, r, cap) ==
    LET keep == r.status = "ok" /\ Len(elems) < cap
    IN  /\ elems' = IF keep THEN Append(elems, r.elem) ELSE elems
        /\ last' = Called(op, IF keep THEN Len(elems) + 1 ELSE 0, call, r.status, <<>>, r.elem)
        /\ UNCHANGED page

\* Element(*pos, **kw)
NewElement(call, cap) ==
    /\ RefsOk(call.pos)
    /\ Construct("Element", call, ElementInit(call, elems), cap)

\* DoRender that stores the trimmed attribute buffer back into the element
DoRenderTrimming(i) ==
    /\ last' = Called("render", i, NoCall, "ok", Render(elems[i]), elems[i])
    /\ elems' = [elems EXCEPT ![i].props = Strip(@)]
    /\ UNCHANGED page

\* e.render(), str(e)
DoRender(i) ==
    /\ last' = Called("render", i, NoCall, "ok", Render(elems[i]), elems[i])
    /\ UNCHANGED <<elems, page>>

\* DoAddContent on content shared by reference: what is added to element i
\* shows in every element
DoAddContentShared(i, tags) ==
    /\ RefsOk(tags)
    /\ Len(elems[i].tag_content) < MaxContent
    /\ LET r == AddContent(elems[i], tags)
       IN  /\ elems' = [j \in 1..Len(elems) |-> AddContent(elems[j], tags).elem]
           /\ last' = Called("add_content", i, [pos |-> tags, kw |-> <<>>], r.status,
                             <<>>, r.elem)
    /\ UNCHANGED page

\* e.add_content(*tags)
DoAddContent(i, tags) ==
    /\ RefsOk(tags)
    /\ Len(elems[i].tag_content) < MaxContent
    /\ LET r == AddContent(elems[i], tags)
       IN  /\ elems' = [elems EXCEPT ![i] = r.elem]
           /\ last' = Called("add_content", i, [pos |-> tags, kw |-> <<>>], r.status,
                             <<>>, r.elem)
    /\ UNCHANGED page

\* e.add_property(name, value)
DoAddProperty(i, name, value) ==
    /\ Len(elems[i].props) < MaxProps
    /\ elems' = [elems EXCEPT ![i] = AddProperty(@, name, PyStr(value, elems))]
    /\ last' = Called("add_property", i, [pos |-> <<VStr(name), value>>, kw |-> <<>>],
                      "ok", <<>>, elems'[i])
    /\ UNCHANGED page

\* e.add_properties(**kw)
DoAddProperties(i, kw) ==
    /\ Len(elems[i].props) < MaxProps
    /\ elems' = [elems EXCEPT ![i] = AddProperties(@, kw, 1, elems)]
    /\ last' = Called("add_properties", i, [pos |-> <<>>, kw |-> kw], "ok", <<>>, elems'[i])
    /\ UNCHANGED page

\* e.add_style(name, value)
DoAddStyle(i, name, value) ==
    /\ Len(elems[i].style) < MaxStyle
    /\ elems' = [elems EXCEPT ![i] = AddStyle(@, name, value)]
    /\ last' = Called("add_style", i, [pos |-> <<VStr(name), VStr(value)>>, kw |-> <<>>],
                      "ok", <<>>, elems'[i])
    /\ UNCHANGED page

\* e.add_styles(**d)
DoAddStyles(i, d) ==
    /\ Len(elems[i].style) < MaxStyle
    /\ elems' = [elems EXCEPT ![i] = AddStyles(@, d, 1)]
    /\ last' = Called("add_styles", i, [pos |-> <<>>, kw |-> <<<<S_style, VDict(d)>>>>],
                      "ok", <<>>, elems'[i])
    /\ UNCHANGED page

\* DoAdd that appends str(other) to the receiver's own content
DoAddInPlace(i, other, cap) ==
    /\ RefsOk(<<other>>)
    /\ elems' = [elems EXCEPT ![i].tag_content = @ \o PyStr(other, elems)]
    /\ last' = Called("add", i, [pos |-> <<VElem(i), other>>, kw |-> <<>>], "ok", <<>>,
                      elems'[i])
    /\ UNCHANGED page

\* e + other
DoAdd(i, other, cap) ==
    /\ RefsOk(<<other>>)
    /\ Construct("add", [pos |-> <<VElem(i), other>>, kw |-> <<>>],
                 ElementAdd(elems[i], other, elems), cap)

---------------------------------------------------------------------------
(* Spec: the life of Element objects.  Elements are constructed directly,   *)
(* mutated through the add_* methods, combined with + and rendered.         *)

S_data_x == <<"d","a","t","a","_","x">>
S__class == <<"_","c","l","a","s","s">>
S_id == <<"i","d">>
S_font_size == <<"f","o","n","t","_","s","i","z","e">>
S_z_index == <<"z","_","i","n","d","e","x">>

\* the constructor calls of Spec
ElementCalls ==
    { \* Element()
      [pos |-> <<>>, kw |-> <<>>],
      \* Element("P", True, "a", data_x="v")
      [pos |-> <<VStr(<<"P">>), VBool(TRUE), VStr(<<"a">>)>>,
       kw |-> <<<<S_data_x, VStr(<<"v">>)>>>>],
      \* Element("br", False, id="i")
      [pos |-> <<VStr(<<"b","r">>), VBool(FALSE)>>, kw |-> <<<<S_id, VStr(<<"i">>)>>>>],
      \* Element("div", True, _class="c", style={"font_size": "9"})
      [pos |-> <<VStr(S_div), VBool(TRUE)>>,
       kw |-> <<<<S__class, VStr(<<"c">>)>>,
                <<S_style, VDict(<<<<S_font_size, <<"9">>>>>>)>>>>] }

\* the arguments of add_content
ContentArgs == { <<VStr(<<"b">>), VStr(<<"c">>)>>, <<VElem(1)>> }

\* the arguments of add_property
PropertyArgs == { <<S_id, VInt(5)>> }

\* the keywords of add_properties
PropertiesArgs ==
    { <<<<S__class, VStr(<<"c">>)>>, <<S_id, VStr(<<"k">>)>>, <<<<"_","i","d">>, VStr(<<"b">>)>>>> }

\* the arguments of add_style and the mappings of add_styles
StyleArgs == { <<S_z_index, <<"1">>>> }
StylesArgs == { <<<<S_font_size, <<"9">>>>, <<<<"_","t","o","p">>, <<"0">>>>>> }

\* the right operands of +
Others == { VStr(<<"z">>), VElem(1) }

Next ==
    \/ \E call \in ElementCalls : NewElement(call, MaxElems)
    \/ \E i \in 1..Len(elems) : DoRender(i)
    \/ \E i \in 1..Len(elems), tags \in ContentArgs : DoAddContent(i, tags)
    \/ \E i \in 1..Len(elems), a \in PropertyArgs : DoAddProperty(i, a[1], a[2])
    \/ \E i \in 1..Len(elems), kw \in PropertiesArgs : DoAddProperties(i, kw)
    \/ \E i \in 1..Len(elems), a \in StyleArgs : DoAddStyle(i, a[1], a[2])
    \/ \E i \in 1..Len(elems), d \in StylesArgs : DoAddStyles(i, d)
    \/ \E i \in 1..Len(elems), other \in Others : DoAdd(i, other, MaxElems)

Spec == Init /\ [][Next]_vars

---------------------------------------------------------------------------
(* SpecInit: Element.__init__ on a range of arguments.                      *)

S_color == <<"c","o","l","o","r">>
S_red == <<"r","e","d">>
S_12px == <<"1","2","p","x">>
S__style == <<"_","s","t","y","l","e">>

\* {"color": "red", "font_size": "12px"}
ColorFont == <<<<S_color, S_red>>, <<S_font_size, S_12px>>>>

\* positional arguments: tag name, end-tag flag, tags
PosArgs ==
    { <<VStr(S_div), VBool(TRUE)>> \o t :
        t \in { <<>>, <<VStr(<<"a">>)>>, <<VStr(<<"a">>), VStr(<<"b">>)>>,
                <<VStr(<<>>)>>, <<VElem(1)>>, <<VStr(<<"a">>), VElem(1)>> } }
    \cup
    { <<VStr(<<"B","r">>), VBool(FALSE)>> \o t :
        t \in { <<>>, <<VStr(<<"a">>)>>, <<VStr(<<"a">>), VStr(<<"b">>)>>,
                <<VStr(<<>>)>>, <<VElem(1)>> } }
    \cup { <<>>, <<VStr(<<"P">>)>> }

\* positional arguments without tags
FewPos == { <<VStr(S_div), VBool(TRUE)>>, <<VStr(<<"B","r">>), VBool(FALSE)>> }

\* keyword arguments
KwArgs ==
    { <<>>,
      <<<<S_data_x, VStr(<<"v">>)>>>>,
      <<<<S__class, VStr(<<"c">>)>>>>,
      <<<<S_id, VInt(5)>>, <<<<"a","_","_","b","_">>, VStr(<<>>)>>>>,
      <<<<S_style, VDict(ColorFont)>>>>,
      <<<<S_style, VDict(<<<<<<"_","t","o","p">>, <<"0">>>>>>)>>>>,
      <<<<S_id, VStr(<<"i">>)>>, <<S_style, VDict(ColorFont)>>, <<S_data_x, VStr(<<"v">>)>>>>,
      <<<<S_style, VDict(<<<<S_color, S_red>>>>)>>, <<S__style, VStr(<<"x">>)>>>>,
      <<<<S_style, VStr(<<"t","o","p",":","0">>)>>>>,
      <<<<S_id, VStr(<<"i">>)>>, <<S_style, VStr(<<"t","o","p",":","0">>)>>>>,
      <<<<S_style, VStr(<<>>)>>>>,
      <<<<S_style, VDict(<<>>)>>, <<S_id, VStr(<<"i">>)>>>>,
      <<<<S_style, VStr(<<>>)>>, <<S__style, VStr(<<"x">>)>>>>,
      <<<<S_style, VInt(5)>>>>,
      <<<<S_style, VInt(0)>>>>,
      <<<<S_style, VList>>>>,
      <<<<S_style, VNone>>>>,
      <<<<S_tag_content, VStr(<<"x">>)>>>> }

\* a few keyword arguments, for the calls with tags
FewKw == { <<>>, <<<<S_data_x, VStr(<<"v">>)>>>> }

InitCalls ==
    { [pos |-> p, kw |-> k] : p \in PosArgs, k \in FewKw }
    \cup { [pos |-> p, kw |-> k] : p \in FewPos, k \in KwArgs }

\* the elements kept, to be passed as tags
KeptCalls ==
    { [pos |-> <<VStr(<<"b">>), VBool(TRUE), VStr(<<"x">>)>>, kw |-> <<>>],
      [pos |-> <<VStr(<<"h","r">>), VBool(FALSE)>>, kw |-> <<<<S_id, VStr(<<"i">>)>>>>] }

\* the keywords of add_properties in SpecInit
InitPropertiesArgs ==
    { <<<<S_data_x, VStr(<<"w">>)>>>>,
      <<<<<<"a","r","i","a","_","l","_","b">>, VInt(5)>>, <<S__class, VStr(<<"c">>)>>>> }

\* the arguments of add_property in SpecInit
InitPropertyArgs == { <<S_data_x, VInt(5)>> }

NextInit ==
    \/ \E call \in KeptCalls : NewElement(call, MaxElems)
    \/ \E call \in InitCalls : NewElement(call, 0)
    \/ \E i \in 1..Len(elems), kw \in InitPropertiesArgs : DoAddProperties(i, kw)
    \/ \E i \in 1..Len(elems), a \in InitPropertyArgs : DoAddProperty(i, a[1], a[2])
    \/ \E i \in 1..Len(elems) : DoRender(i)

SpecInit == Init /\ [][NextInit]_vars

---------------------------------------------------------------------------
(* SpecTags: the tag classes.                                               *)

\* cls(*tags, **props) for a catalog class
NewTag(cls, tags, props, cap) ==
    /\ RefsOk(tags)
    /\ Construct(cls, [pos |-> tags, kw |-> props], TagInit(cls, tags, props, elems), cap)

\* A(link, *tags, **props)
NewA(link, tags, props) ==
    /\ RefsOk(tags)
    /\ Construct("A", [pos |-> <<link>> \o tags, kw |-> props],
                 AInit(link, tags, props, elems), 0)

\* H(level, *tags, **props)
NewH(level, tags, props) ==
    /\ RefsOk(tags)
    /\ Construct("H", [pos |-> <<VInt(level)>> \o tags, kw |-> props],
                 HInit(level, tags, props, elems), 0)

\* Style(**props)
NewStyle(props) ==
    Construct("Style", [pos |-> <<>>, kw |-> props], StyleInit(props, elems), 0)

Classes == { c.cls : c \in Catalog }

\* the classes constructed with children and attributes
NestClasses == { "Div", "Span", "Title", "Br", "Circle" }

S_hello == <<"h","e","l","l","o">>

\* children: none, a str, strs, a kept element, a str and an element
TagArgs ==
    { <<>>, <<VStr(S_hello)>>, <<VStr(<<"a">>), VStr(<<"b">>)>>, <<VElem(1)>> }

\* the attributes given to A
TagKw == { <<>>, <<<<S_id, VStr(<<"i">>)>>>> }

\* the keywords of Style: selector=mapping, selector=str, a value of another type
StyleKw ==
    { <<>>,
      <<<<<<"p">>, VDict(<<<<S_font_size, <<"9">>>>>>)>>>>,
      <<<<<<"p">>, VStr(<<"{","}">>)>>>>,
      <<<<<<"p">>, VInt(5)>>>> }

\* Element with a tag name in mixed case: Element("DiV"), Element(tag_name="Hr", has_end_tag=False)
MixedCaseCalls ==
    { [pos |-> <<VStr(<<"D","i","V">>)>>, kw |-> <<>>],
      [pos |-> <<>>, kw |-> <<<<S_tag_name, VStr(<<"H","r">>)>>, <<S_has_end_tag, VBool(FALSE)>>>>] }

NextTags ==
    \/ \E cls \in Classes : NewTag(cls, <<>>, <<>>, 0)
    \/ \E cls \in NestClasses, tags \in TagArgs : NewTag(cls, tags, <<>>, MaxElems)
    \/ \E tags \in TagArgs, props \in TagKw : NewA(VStr(<<"/">>), tags, props)
    \/ \E level \in 0..MaxLevel, tags \in {<<>>, <<VStr(<<"x">>)>>} : NewH(level, tags, <<>>)
    \/ \E props \in StyleKw : NewStyle(props)
    \/ \E call \in MixedCaseCalls : NewElement(call, 0)
    \/ \E i \in 1..Len(elems) : DoRender(i)

SpecTags == Init /\ [][NextTags]_vars

---------------------------------------------------------------------------
(* SpecPage: an HTMLPage, the elements given to it, and its rendering.      *)

\* the heap of SpecPage holds the elements the caller keeps, the page's
\* head and body, and one head or body that was replaced
PageCap == MaxElems + 3

\* HTMLPage(lang) (page.py:31-41): set_head() and set_body() without arguments
NewPage(lang) ==
    /\ ~page.made
    /\ Len(elems) + 2 <= PageCap
    /\ LET h == SetHeadElement(<<>>, <<>>, elems)
           b == SetBodyElement(<<>>, <<>>, elems)
       IN  /\ elems' = elems \o <<h.elem, b.elem>>
           /\ page' = [made |-> TRUE, lang |-> lang,
                       head |-> Len(elems) + 1, body |-> Len(elems) + 2]
           /\ last' = Called("HTMLPage", 0, [pos |-> <<VStr(lang)>>, kw |-> <<>>],
                             "ok", <<>>, NoElem)

\* PageSetHead that installs what the constructor left behind when it raised
PageSetHeadOnError(args, props) ==
    /\ page.made
    /\ RefsOk(args)
    /\ Len(elems) < PageCap
    /\ LET r == SetHeadElement(args, props, elems)
       IN  /\ elems' = Append(elems, r.elem)
           /\ page' = [page EXCEPT !.head = Len(elems) + 1]
           /\ last' = Called("set_head", Len(elems) + 1,
                             [pos |-> args, kw |-> props], r.status, <<>>, r.elem)

\* PageSetHead that returns the new head and leaves the old one installed
PageSetHeadNotInstalling(args, props) ==
    /\ page.made
    /\ RefsOk(args)
    /\ Len(elems) < PageCap
    /\ LET r == SetHeadElement(args, props, elems)
           ok == r.status = "ok"
       IN  /\ elems' = IF ok THEN Append(elems, r.elem) ELSE elems
           /\ last' = Called("set_head", IF ok THEN Len(elems) + 1 ELSE 0,
                             [pos |-> args, kw |-> props], r.status, <<>>, r.elem)
    /\ UNCHANGED page

\* page.set_head(*args, **props) (page.py:95-110)
PageSetHead(args, props) ==
    /\ page.made
    /\ RefsOk(args)
    /\ Len(elems) < PageCap
    /\ LET r == SetHeadElement(args, props, elems)
           ok == r.status = "ok"
       IN  /\ elems' = IF ok THEN Append(elems, r.elem) ELSE elems
           /\ page' = IF ok THEN [page EXCEPT !.head = Len(elems) + 1] ELSE page
           /\ last' = Called("set_head", IF ok THEN Len(elems) + 1 ELSE 0,
                             [pos |-> args, kw |-> props], r.status, <<>>, r.elem)

\* page.set_body(*args, **props) (page.py:112-127)
PageSetBody(args, props) ==
    /\ page.made
    /\ RefsOk(args)
    /\ Len(elems) < PageCap
    /\ LET r == SetBodyElement(args, props, elems)
           ok == r.status = "ok"
       IN  /\ elems' = IF ok THEN Append(elems, r.elem) ELSE elems
           /\ page' = IF ok THEN [page EXCEPT !.body = Len(elems) + 1] ELSE page
           /\ last' = Called("set_body", IF ok THEN Len(elems) + 1 ELSE 0,
                             [pos |-> args, kw |-> props], r.status, <<>>, r.elem)

\* the loop of add_tag_to_head and add_tag_to_body (page.py:154-155,
\* 165-166) on the element id of heap, items i.. of args: str(tag) is taken
\* when the item is appended, so an item that is the element itself
\* renders what was appended before it
RECURSIVE AddTags(_, _, _, _)
AddTags(heap, id, args, i) ==
    IF i > Len(args) THEN heap
    ELSE AddTags([heap EXCEPT ![id].tag_content = @ \o PyStr(args[i], heap)], id, args, i + 1)

\* PageAddToHead that installs a copy of the head with the content added
PageAddToHeadCopy(args) ==
    /\ page.made
    /\ RefsOk(args)
    /\ Len(elems[page.head].tag_content) < MaxContent
    /\ elems' = Append(elems, AddTags(elems, page.head, args, 1)[page.head])
    /\ page' = [page EXCEPT !.head = Len(elems) + 1]
    /\ last' = Called("add_tag_to_head", page'.head, [pos |-> args, kw |-> <<>>],
                      "ok", <<>>, elems'[page'.head])

\* PageAddToHead that adds the items to the body as well
PageAddToBoth(args) ==
    /\ page.made
    /\ RefsOk(args)
    /\ Len(elems[page.head].tag_content) < MaxContent
    /\ elems' = AddTags(AddTags(elems, page.head, args, 1), page.body, args, 1)
    /\ last' = Called("add_tag_to_head", page.head, [pos |-> args, kw |-> <<>>],
                      "ok", <<>>, elems'[page.head])
    /\ UNCHANGED page

\* page.add_tag_to_head(*args) (page.py:147-156)
PageAddToHead(args) ==
    /\ page.made
    /\ RefsOk(args)
    /\ Len(elems[page.head].tag_content) < MaxContent
    /\ elems' = AddTags(elems, page.head, args, 1)
    /\ last' = Called("add_tag_to_head", page.head, [pos |-> args, kw |-> <<>>],
                      "ok", <<>>, elems'[page.head])
    /\ UNCHANGED page

\* page.add_tag_to_body(*args) (page.py:158-167)
PageAddToBody(args) ==
    /\ page.made
    /\ RefsOk(args)
    /\ Len(elems[page.body].tag_content) < MaxContent
    /\ elems' = AddTags(elems, page.body, args, 1)
    /\ last' = Called("add_tag_to_body", page.body, [pos |-> args, kw |-> <<>>],
                      "ok", <<>>, elems'[page.body])
    /\ UNCHANGED page

\* page.render(), str(page)
DoPageRender ==
    /\ page.made
    /\ last' = Called("page_render", 0, NoCall, "ok", PageRender(page, elems), NoElem)
    /\ UNCHANGED <<elems, page>>

S_fr == <<"f","r">>

\* the languages: the default "en", and "fr"
Langs == { S_en, S_fr }

\* the element given to the page: Element("p", True, "y")
ChildCalls == { [pos |-> <<VStr(<<"p">>), VBool(TRUE), VStr(<<"y">>)>>, kw |-> <<>>] }

\* the children of add_tag_to_head and add_tag_to_body
PageArgs == { <<>>, <<VStr(<<"x">>), VElem(1)>> }

\* the calls of set_head and set_body: no argument; children and an
\* attribute; style=5, which makes the constructor raise
SetCalls ==
    { [pos |-> <<>>, kw |-> <<>>],
      [pos |-> <<VStr(<<"x">>), VElem(1)>>, kw |-> <<<<S_id, VStr(<<"i">>)>>>>],
      [pos |-> <<VElem(1)>>, kw |-> <<<<S_style, VInt(5)>>>>] }

NextPage ==
    \/ \E call \in ChildCalls : Len(elems) < MaxElems /\ NewElement(call, MaxElems)
    \/ \E lang \in Langs : NewPage(lang)
    \/ \E c \in SetCalls : PageSetHead(c.pos, c.kw)
    \/ \E c \in SetCalls : PageSetBody(c.pos, c.kw)
    \/ \E args \in PageArgs : PageAddToHead(args)
    \/ \E args \in PageArgs : PageAddToBody(args)
    \/ DoPageRender
    \/ \E i \in 1..Len(elems) : DoRender(i)

SpecPage == Init /\ [][NextPage]_vars

---------------------------------------------------------------------------
(* SpecAddTag: a page whose head and body are added to again and again.     *)

\* the children of add_tag_to_body: a str short enough to be followed by
\* others, and a str followed by an element
BodyArgs == { <<VStr(<<"k">>)>>, <<VStr(<<"x">>), VElem(1)>> }

\* the call of set_head: set_head("x", id="i")
AddTagSetCalls == { [pos |-> <<VStr(<<"x">>)>>, kw |-> <<<<S_id, VStr(<<"i">>)>>>>] }

\* the mutations of the first element, the one given to the page and to
\* +, after it was given: e.add_content("b") and e.add_property("id", 5)
ChildContentArgs == { <<VStr(<<"b">>)>> }

NextAddTag ==
    \/ \E call \in ChildCalls : Len(elems) < MaxElems /\ NewElement(call, MaxElems)
    \/ NewPage(S_en)
    \/ \E c \in AddTagSetCalls : PageSetHead(c.pos, c.kw)
    \/ \E args \in PageArgs : PageAddToHead(args)
    \/ \E args \in BodyArgs : PageAddToBody(args)
    \/ DoPageRender
    \/ \E tags \in ChildContentArgs : elems /= <<>> /\ DoAddContent(1, tags)
    \/ \E a \in PropertyArgs : elems /= <<>> /\ DoAddProperty(1, a[1], a[2])
    \/ elems /= <<>> /\ DoAdd(1, VElem(1), MaxElems + 1)

SpecAddTag == Init /\ [][NextAddTag]_vars

---------------------------------------------------------------------------
(* SpecInstalled: a page whose head and body are replaced, and the elements *)
(* that set_head, set_body, add_tag_to_head and add_tag_to_body returned,   *)
(* installed or replaced since, are given content.                          *)

\* the children of add_tag_to_head and add_tag_to_body
InstalledArgs == { <<VStr(<<"k">>), VStr(<<"m">>), VStr(<<"n">>)>> }

\* the content given to an element: e.add_content("b", "c", "d")
InstalledContentArgs == { <<VStr(<<"b">>), VStr(<<"c">>), VStr(<<"d">>)>> }

NextInstalled ==
    \/ NewPage(S_en)
    \/ \E c \in AddTagSetCalls : PageSetHead(c.pos, c.kw)
    \/ \E c \in AddTagSetCalls : PageSetBody(c.pos, c.kw)
    \/ \E args \in InstalledArgs : PageAddToHead(args)
    \/ \E args \in InstalledArgs : PageAddToBody(args)
    \/ \E i \in 1..Len(elems), tags \in InstalledContentArgs : DoAddContent(i, tags)
    \/ DoPageRender

SpecInstalled == Init /\ [][NextInstalled]_vars

---------------------------------------------------------------------------
(* The claims.                                                              *)

\* <tag>
OpenTag(tag) == <<"<">> \o tag \o <<">">>
\* </tag>
CloseTag(tag) == <<"<", "/">> \o tag \o <<">">>
\* name="value"
Attr(name, value) == name \o <<"=", "\"">> \o value \o <<"\"">>

\* C1: a tag class that accepts children, constructed with one or more
\* children (strings or elements), is constructed successfully and renders
\* the children's string forms in argument order between its opening and
\* closing tag (SpecTags).
C1_Nesting ==
    (/\ last.op \in NestClasses
     /\ CatalogEntry(last.op).form = "children"
     /\ last.call.pos /= <<>>)
    => /\ last.status = "ok"
       /\ Render(last.elem)
            = OpenTag(CatalogEntry(last.op).doc)
              \o ConcatStr(last.call.pos, 1, last.heap0)
              \o CloseTag(CatalogEntry(last.op).doc)

\* the page that HTMLPage.render is specified to return, from the rendered
\* head and body
PageMarkup(lang, head, body) ==
    <<"<","!","D","O","C","T","Y","P","E"," ","h","t","m","l",">">>
    \o <<"<","h","t","m","l"," ">> \o Attr(S_lang, lang) \o <<">">>
    \o head \o body \o CloseTag(S_html)

\* C2: the page renders the doctype and an html element with the lang
\* attribute alone, whose content is the rendered head followed by the
\* rendered body; a head (body) set with children renders <head> (<body>),
\* the children's string forms, </head> (</body>) (SpecPage).
C2_PageRoundTrip ==
    /\ last.op = "page_render"
       => last.out = PageMarkup(page.lang, Render(elems[page.head]),
                                Render(elems[page.body]))
    /\ (last.op = "set_head" /\ last.status = "ok" /\ last.call.kw = <<>>)
       => Render(elems[page.head])
            = OpenTag(S_head) \o ConcatStr(last.call.pos, 1, last.heap0) \o CloseTag(S_head)
    /\ (last.op = "set_body" /\ last.status = "ok" /\ last.call.kw = <<>>)
       => Render(elems[page.body])
            = OpenTag(S_body) \o ConcatStr(last.call.pos, 1, last.heap0) \o CloseTag(S_body)

\* C3: every tag class constructed without content and without attributes
\* renders <tagname></tagname>, or <tagname /> when it is void, with tagname
\* the tag its docstring names (SpecTags).
C3_CatalogRender ==
    /\ (last.op \in Classes /\ last.call = NoCall)
       => /\ last.status = "ok"
          /\ Render(last.elem)
               = IF CatalogEntry(last.op).form = "children"
                 THEN OpenTag(CatalogEntry(last.op).doc) \o CloseTag(CatalogEntry(last.op).doc)
                 ELSE <<"<">> \o CatalogEntry(last.op).doc \o <<" ", "/", ">">>
    /\ (last.op = "Style" /\ last.call = NoCall)
       => /\ last.status = "ok"
          /\ Render(last.elem) = OpenTag(S_style) \o CloseTag(S_style)

\* the call of Element recorded in last passes has_end_tag = False
VoidCall == last.op = "Element" /\ Len(last.call.pos) >= 2 /\ ~Truthy(last.call.pos[2])

\* C4: Element with has_end_tag = False and content arguments raises
\* ValueError and produces no element; with has_end_tag = False and no
\* content argument it does not, and succeeds unless a style keyword is
\* rejected (SpecInit).
C4_VoidContent ==
    /\ (VoidCall /\ Len(last.call.pos) > 2)
       => last.status = "ValueError" /\ last.elem = NoElem /\ elems = last.heap0
    /\ (VoidCall /\ Len(last.call.pos) = 2)
       => /\ last.status /= "ValueError"
          /\ ~KwHas(last.call.kw, S_style)
             => last.status = "ok" /\ ~last.elem.has_end_tag /\ last.elem.tag_content = <<>>

\* C4 witness: a void element was given content and the constructor raised.
C4_Witness ==
    VoidCall /\ Len(last.call.pos) > 2 /\ last.call.pos[3].s /= <<>>
    /\ last.status = "ValueError"

\* name has an underscore, and none at its start or end
HasSeparators(name) ==
    /\ \E i \in 1..Len(name) : name[i] = "_"
    /\ name[1] /= "_" /\ name[Len(name)] /= "_"

\* C5: after a successful construction or add_properties, every keyword
\* whose name uses underscore separators is rendered with the underscores
\* as hyphens and its value in double quotes (SpecInit).
C5_UnderscoreToHyphen ==
    (last.op \in {"Element", "add_properties"} /\ last.status = "ok")
    => \A k \in 1..Len(last.call.kw) :
          HasSeparators(last.call.kw[k][1])
          => Contains(Render(last.elem),
                      <<" ">> \o Attr(Replace(last.call.kw[k][1], "_", "-"),
                                      PyStr(last.call.kw[k][2], last.heap0)))

\* C5 witness: add_properties added a keyword with an underscore separator.
C5_Witness ==
    /\ last.op = "add_properties" /\ last.status = "ok"
    /\ \E k \in 1..Len(last.call.kw) : HasSeparators(last.call.kw[k][1])
    /\ Contains(Render(last.elem), <<"-">>)

\* the call of Element recorded in last succeeded and passed a non-empty
\* mapping as style
StyleMappingCall ==
    /\ last.op = "Element" /\ last.status = "ok"
    /\ KwHas(last.call.kw, S_style)
    /\ KwGet(last.call.kw, S_style).kind = "dict"
    /\ KwGet(last.call.kw, S_style).d /= <<>>

\* the number of attributes called name in the attribute buffer props
AttrCount(props, name) ==
    LET buf == <<" ">> \o props
        pat == <<" ">> \o name \o <<"=", "\"">>
    IN  Cardinality({ i \in 0..(Len(buf) - Len(pat)) : SubSeq(buf, i + 1, i + Len(pat)) = pat })

\* the declarations of the mapping d from item i on, every underscore of a
\* name turned into a hyphen
RECURSIVE HyphenDecls(_, _)
HyphenDecls(d, i) ==
    IF i > Len(d) THEN <<>>
    ELSE Replace(d[i][1], "_", "-") \o <<":", " ">> \o d[i][2] \o <<";">> \o HyphenDecls(d, i + 1)

\* the declarations of the mapping d from item i on, the underscores at the
\* ends of a name removed and its other underscores turned into hyphens
RECURSIVE TrimmedDecls(_, _)
TrimmedDecls(d, i) ==
    IF i > Len(d) THEN <<>>
    ELSE Replace(StripChars(d[i][1], {"_"}), "_", "-") \o <<":", " ">> \o d[i][2] \o <<";">>
         \o TrimmedDecls(d, i + 1)

\* C6 as claimed: a non-empty style mapping renders exactly one style
\* attribute, whose value is the declarations in order with every
\* underscore of a name converted to a hyphen (SpecInit).
C6_Original ==
    StyleMappingCall
    => /\ AttrCount(last.elem.props, S_style) = 1
       /\ Contains(Render(last.elem),
                   <<" ">> \o Attr(S_style, HyphenDecls(KwGet(last.call.kw, S_style).d, 1)))

\* C6 as amended: a non-empty style mapping renders a style attribute whose
\* value is the declarations 'name: value;' in the mapping's order, each
\* name with the underscores at its ends removed and its other underscores
\* converted to hyphens; it is the only style attribute unless another
\* keyword's name normalises to style (SpecInit).
C6_StyleMapping ==
    StyleMappingCall
    => /\ Contains(Render(last.elem),
                   <<" ">> \o Attr(S_style, TrimmedDecls(KwGet(last.call.kw, S_style).d, 1)))
       /\ (\A k \in 1..Len(last.call.kw) :
              last.call.kw[k][1] /= S_style
              => StripChars(last.call.kw[k][1], {"_"}) /= S_style)
          => AttrCount(last.elem.props, S_style) = 1

\* C6 witness: a style mapping with two declarations, one name with an
\* underscore separator, was rendered.
C6_Witness ==
    /\ StyleMappingCall
    /\ Len(KwGet(last.call.kw, S_style).d) = 2
    /\ Contains(Render(last.elem), <<";", "f", "o", "n", "t", "-", "s", "i", "z", "e", ":">>)

\* C7: H(level) raises ValueError, building no element, for a level outside
\* 1..6; for a level in 1..6 and no children it renders <hN></hN> (SpecTags).
C7_HeadingLevel ==
    last.op = "H"
    => LET level == last.call.pos[1].n
       IN  /\ ~(level \in 1..6)
              => last.status = "ValueError" /\ last.elem = NoElem /\ elems = last.heap0
           /\ (level \in 1..6 /\ Len(last.call.pos) = 1)
              => /\ last.status = "ok"
                 /\ Render(last.elem)
                      = OpenTag(<<"h">> \o Digits(level)) \o CloseTag(<<"h">> \o Digits(level))

\* C7 witness: H(7) raised.
C7_Witness == last.op = "H" /\ last.call.pos[1].n = 7 /\ last.status = "ValueError"

\* C8: render() of an element or of the page changes no element and not the
\* page, and a second render() right after the first returns the same
\* string (SpecPage).
C8_RenderPure ==
    [][ /\ last'.op \in {"render", "page_render"} => elems' = elems /\ page' = page
        /\ (last.op \in {"render", "page_render"} /\ last'.op = last.op /\ last'.id = last.id)
           => last'.out = last.out ]_vars

\* C8 witness: the page was rendered after its head was set with an attribute.
C8_Witness ==
    /\ last.op = "page_render"
    /\ elems[page.head].props /= <<>>
    /\ elems[page.head].tag_content /= <<>>

\* C9: render() returns '<' tag_name, then a space and the trimmed attribute
\* buffer when it is not empty, then '>' when has_end_tag, then the content,
\* then '</' tag_name '>' when has_end_tag and ' />' otherwise (Spec).
C9_RenderFormat ==
    last.op = "render"
    => LET e == elems[last.id]
           open == <<"<">> \o e.tag_name
                   \o (IF Len(e.props) > 0 THEN <<" ">> \o Strip(e.props) ELSE <<>>)
       IN  /\ e.has_end_tag
              => last.out = open \o <<">">> \o e.tag_content \o CloseTag(e.tag_name)
           /\ ~e.has_end_tag
              => last.out = open \o e.tag_content \o <<" ", "/", ">">>

\* C9 witness: an element with an end tag, attributes and no content was
\* rendered with both tags.
C9_Witness ==
    /\ last.op = "render"
    /\ elems[last.id].has_end_tag
    /\ elems[last.id].tag_content = <<>>
    /\ elems[last.id].props /= <<>>
    /\ EndsWith(last.out, <<"\"", ">">> \o CloseTag(elems[last.id].tag_name))

\* C10: e + other succeeds and returns an element with e's tag name, e's
\* end-tag flag, e's rendered attributes and e's content followed by
\* str(other) (Spec).
C10_Combine ==
    last.op = "add"
    => LET e == last.heap0[last.call.pos[1].n]
       IN  /\ last.status = "ok"
           /\ last.elem.tag_name = e.tag_name
           /\ last.elem.has_end_tag = e.has_end_tag
           /\ last.elem.props = e.props
           /\ last.elem.tag_content = e.tag_content \o PyStr(last.call.pos[2], last.heap0)

\* C11: e + other leaves every element that existed before the operation,
\* the receiver and an Element operand among them, with the same fields and
\* the same rendering (Spec).
C11_AddKeepsOperands ==
    last.op = "add"
    => /\ Len(elems) >= Len(last.heap0)
       /\ \A i \in 1..Len(last.heap0) :
             /\ elems[i] = last.heap0[i]
             /\ Render(elems[i]) = Render(last.heap0[i])

\* C11 witness: an element with content and attributes was combined with a
\* str, and the operation returned an element.
C11_Witness ==
    /\ last.op = "add" /\ last.status = "ok"
    /\ last.call.pos[2].kind = "str"
    /\ last.heap0[last.call.pos[1].n].tag_content /= <<>>
    /\ last.heap0[last.call.pos[1].n].props /= <<>>

\* C12: Element with a style keyword whose value is neither a str nor a
\* mapping (5, 0, an empty list) raises TypeError and produces no element
\* (SpecInit).
C12_StyleTypeError ==
    (/\ last.op = "Element"
     /\ KwHas(last.call.kw, S_style)
     /\ KwGet(last.call.kw, S_style).kind \in {"int", "list"})
    => last.status = "TypeError" /\ last.elem = NoElem

\* C13: add_content succeeds for str and Element items alike, appends the
\* string form of each item to the content in call order, and leaves the tag
\* name, the end-tag flag and the attributes unchanged (Spec).
C13_AddContent ==
    last.op = "add_content"
    => LET e == last.heap0[last.id]
       IN  /\ last.status = "ok"
           /\ elems[last.id].tag_content
                = e.tag_content \o ConcatStr(last.call.pos, 1, last.heap0)
           /\ elems[last.id].tag_name = e.tag_name
           /\ elems[last.id].has_end_tag = e.has_end_tag
           /\ elems[last.id].props = e.props

\* C14: set_head (set_body) installs a new head (body) element whose content
\* is the string forms of the children in order and whose attributes are
\* exactly the keywords given; the head and the body of a newly constructed
\* page have no content and no attributes (SpecPage).
C14_SetHeadBody ==
    /\ (last.op = "set_head" /\ last.status = "ok")
       => /\ page.head = last.id /\ page.head > Len(last.heap0)
          /\ elems[page.head].tag_name = S_head
          /\ elems[page.head].tag_content = ConcatStr(last.call.pos, 1, last.heap0)
          /\ elems[page.head].props = AddProperties(NoElem, last.call.kw, 1, last.heap0).props
    /\ (last.op = "set_body" /\ last.status = "ok")
       => /\ page.body = last.id /\ page.body > Len(last.heap0)
          /\ elems[page.body].tag_name = S_body
          /\ elems[page.body].tag_content = ConcatStr(last.call.pos, 1, last.heap0)
          /\ elems[page.body].props = AddProperties(NoElem, last.call.kw, 1, last.heap0).props
    /\ last.op = "HTMLPage"
       => /\ elems[page.head].tag_content = <<>> /\ elems[page.head].props = <<>>
          /\ elems[page.body].tag_content = <<>> /\ elems[page.body].props = <<>>

\* C15: add_tag_to_head (add_tag_to_body) returns the installed head (body),
\* which stays installed and keeps its tag name, end-tag flag and
\* attributes; its content is the previous content followed by the string
\* forms of the items in call order; no other element changes (SpecPage).
C15_AddTagInPlace ==
    last.op \in {"add_tag_to_head", "add_tag_to_body"}
    => LET id == IF last.op = "add_tag_to_head" THEN page.head ELSE page.body
           e == last.heap0[id]
       IN  /\ page = last.page0
           /\ last.id = id
           /\ last.elem = elems[id]
           /\ Len(elems) = Len(last.heap0)
           /\ \A j \in 1..Len(elems) : j /= id => elems[j] = last.heap0[j]
           /\ elems[id].tag_name = e.tag_name
           /\ elems[id].has_end_tag = e.has_end_tag
           /\ elems[id].props = e.props
           /\ SubSeq(elems[id].tag_content, 1, Len(e.tag_content)) = e.tag_content
           /\ (\A k \in 1..Len(last.call.pos) : last.call.pos[k] /= VElem(id))
              => elems[id].tag_content
                   = e.tag_content \o ConcatStr(last.call.pos, 1, last.heap0)

\* C15 witness: a str and an element were added to a body that had content.
C15_Witness ==
    /\ last.op = "add_tag_to_body"
    /\ Len(last.call.pos) = 2
    /\ last.call.pos[2].kind = "elem" /\ last.call.pos[2].n /= page.body
    /\ last.heap0[page.body].tag_content /= <<>>

\* the index of the '>' that ends the start tag at the head of the markup
\* s, read as an HTML tokenizer reads it from position i in state st: "name"
\* in a tag or attribute name or between attributes, "eq" after the '=' of an
\* attribute, "dq" and "sq" inside a double- or single-quoted value, "uq"
\* inside an unquoted value; Len(s) + 1 when the tag does not end
RECURSIVE StartTagEnd(_, _, _)
StartTagEnd(s, i, st) ==
    IF i > Len(s) THEN i
    ELSE LET c == s[i]
         IN  CASE st = "name" ->
                    IF c = ">" THEN i
                    ELSE StartTagEnd(s, i + 1, IF c = "=" THEN "eq" ELSE "name")
               [] st = "eq" ->
                    IF c = ">" THEN i
                    ELSE StartTagEnd(s, i + 1,
                                     IF c = "\"" THEN "dq"
                                     ELSE IF c = "'" THEN "sq"
                                     ELSE IF c \in Whitespace THEN "eq" ELSE "uq")
               [] st = "uq" ->
                    IF c = ">" THEN i
                    ELSE StartTagEnd(s, i + 1, IF c \in Whitespace THEN "name" ELSE "uq")
               [] st = "dq" -> StartTagEnd(s, i + 1, IF c = "\"" THEN "name" ELSE "dq")
               [] st = "sq" -> StartTagEnd(s, i + 1, IF c = "'" THEN "name" ELSE "sq")

\* the start tag at the head of the markup s, its '>' included
StartTag(s) == SubSeq(s, 1, StartTagEnd(s, 1, "name"))

\* C16: the rendered page begins with <!DOCTYPE html> immediately followed
\* by an html element whose start tag has the attribute lang with the page's
\* language as its value (SpecPage).
C16_DoctypeLang ==
    last.op = "page_render"
    => LET doc == <<"<","!","D","O","C","T","Y","P","E"," ","h","t","m","l",">">>
           rest == SubSeq(last.out, Len(doc) + 1, Len(last.out))
       IN  /\ SubSeq(last.out, 1, Len(doc)) = doc
           /\ SubSeq(rest, 1, 6) = <<"<","h","t","m","l"," ">>
           /\ Contains(StartTag(rest), <<" ">> \o Attr(S_lang, page.lang))

\* C17: A(link, *children, **props) succeeds and returns an a element whose
\* rendered start tag has the attribute href with the link as its value
\* (SpecTags).
C17_AnchorHref ==
    last.op = "A"
    => /\ last.status = "ok"
       /\ last.elem.tag_name = S_a
       /\ Contains(StartTag(Render(last.elem)),
                   <<" ">> \o Attr(S_href, PyStr(last.call.pos[1], last.heap0)))

\* the attribute names the calls of Spec can produce
AttrNames ==
    { S_id, S_style, <<"c","l","a","s","s">>, <<"d","a","t","a","-","x">>,
      <<"t","a","g","-","c","o","n","t","e","n","t">> }

\* C18: every rendering of an element is well-formed markup: its start tag,
\* read as HTML, is '<' tag name and the attribute buffer closed by '>' or
\* ' />', with no attribute name twice, and a non-void element ends with its
\* closing tag (Spec).
C18_ValidMarkup ==
    last.op = "render"
    => LET e == elems[last.id]
           open == <<"<">> \o e.tag_name
                   \o (IF Len(e.props) > 0 THEN <<" ">> \o Strip(e.props) ELSE <<>>)
                   \o (IF e.has_end_tag THEN <<">">> ELSE <<" ", "/", ">">>)
       IN  /\ StartTag(last.out) = open
           /\ e.has_end_tag => EndsWith(last.out, CloseTag(e.tag_name))
           /\ \A name \in AttrNames : AttrCount(e.props, name) <= 1

\* C19: every element with has_end_tag = False has empty content, after
\* construction and after any sequence of add_content, add_property,
\* add_properties, add_style, add_styles, + and render (Spec).
C19_VoidHasNoContent ==
    /\ \A i \in 1..Len(elems) : ~elems[i].has_end_tag => elems[i].tag_content = <<>>
    /\ (last.status = "ok" /\ last.elem /= NoElem /\ ~last.elem.has_end_tag)
       => last.elem.tag_content = <<>>

\* the call recorded in last is add_property(name, value)
AddPropertyCall == last.op = "add_property" /\ last.status = "ok"

\* C20 as claimed: add_property appends name="value" and a separator to the
\* attribute buffer, the underscores of name converted to hyphens (SpecInit).
C20_Original ==
    AddPropertyCall
    => elems[last.id].props
         = last.heap0[last.id].props
           \o Attr(Replace(last.call.pos[1].s, "_", "-"), PyStr(last.call.pos[2], last.heap0))
           \o <<" ">>

\* C20 as amended: add_property appends name="value" and a separator to the
\* attribute buffer with the name as given, underscores included, so that
\* the element renders the attribute after all the attributes added before
\* it (SpecInit).
C20_AddProperty ==
    AddPropertyCall
    => LET e == last.heap0[last.id]
           attr == Attr(last.call.pos[1].s, PyStr(last.call.pos[2], last.heap0))
       IN  /\ elems[last.id].props = e.props \o attr \o <<" ">>
           /\ StartTag(Render(elems[last.id]))
                = <<"<">> \o e.tag_name \o <<" ">> \o e.props \o attr
                  \o (IF e.has_end_tag THEN <<">">> ELSE <<" ", "/", ">">>)

\* C20 witness: add_property was called with a name that has an underscore
\* on an element that had an attribute.
C20_Witness ==
    /\ AddPropertyCall
    /\ Contains(last.call.pos[1].s, <<"_">>)
    /\ last.heap0[last.id].props /= <<>>
    /\ Contains(Render(elems[last.id]), <<"d","a","t","a","_","x","=">>)

\* the number of the keywords kw whose normalised name is name
KwCount(kw, name) == Cardinality({ k \in 1..Len(kw) : NormName(kw[k][1]) = name })

\* the attributes name="value" of the keywords kw from item i on, each name
\* normalised and each attribute followed by a space, in keyword order
RECURSIVE AttrsOf(_, _, _)
AttrsOf(kw, i, heap) ==
    IF i > Len(kw) THEN <<>>
    ELSE Attr(NormName(kw[i][1]), PyStr(kw[i][2], heap)) \o <<" ">> \o AttrsOf(kw, i + 1, heap)

\* C21: add_property and add_properties append to the attribute buffer and
\* never replace: the attributes rendered before stay in place, and a name
\* added again occurs once more, after the earlier occurrences; two keywords
\* that normalise to one name give two attributes in keyword order (Spec).
C21_NoDeduplication ==
    /\ (last.op = "add_property" /\ last.status = "ok")
       => LET e == last.heap0[last.id]
              attr == Attr(last.call.pos[1].s, PyStr(last.call.pos[2], last.heap0))
          IN  /\ elems[last.id].props = e.props \o attr \o <<" ">>
              /\ \A name \in AttrNames :
                    AttrCount(elems[last.id].props, name)
                      = AttrCount(e.props, name)
                        + (IF name = last.call.pos[1].s THEN 1 ELSE 0)
    /\ (last.op = "add_properties" /\ last.status = "ok")
       => LET e == last.heap0[last.id]
          IN  /\ SubSeq(elems[last.id].props, 1, Len(e.props)) = e.props
              /\ \A name \in AttrNames :
                    AttrCount(elems[last.id].props, name)
                      = AttrCount(e.props, name) + KwCount(last.call.kw, name)
              /\ elems[last.id].props = e.props \o AttrsOf(last.call.kw, 1, last.heap0)

\* C21 witness: an element that had the attribute id got two more through
\* the keywords id and _id, and renders three.
C21_Witness ==
    /\ last.op = "add_properties" /\ last.status = "ok"
    /\ KwCount(last.call.kw, S_id) = 2
    /\ AttrCount(last.heap0[last.id].props, S_id) = 1
    /\ AttrCount(elems[last.id].props, S_id) = 3

\* the declarations name: value; of the mapping d from item i on, each name
\* normalised as add_styles normalises it
RECURSIVE DeclsOf(_, _)
DeclsOf(d, i) ==
    IF i > Len(d) THEN <<>>
    ELSE NormName(d[i][1]) \o <<":", " ">> \o d[i][2] \o <<";">> \o DeclsOf(d, i + 1)

\* C22: after add_style or add_styles on an element, the element renders a
\* style attribute whose value is the style it had, from construction or
\* earlier additions, followed by the declarations added (Spec).
C22_AddStyleRendered ==
    /\ last.op = "add_style"
       => Contains(StartTag(Render(elems[last.id])),
                   <<" ">> \o Attr(S_style,
                                   last.heap0[last.id].style
                                   \o last.call.pos[1].s \o <<":", " ">>
                                   \o last.call.pos[2].s \o <<";">>))
    /\ last.op = "add_styles"
       => Contains(StartTag(Render(elems[last.id])),
                   <<" ">> \o Attr(S_style,
                                   last.heap0[last.id].style
                                   \o DeclsOf(KwGet(last.call.kw, S_style).d, 1)))

\* C23: a step of add_content, add_property or add_properties on an element
\* changes no other element: every element that took the string form of the
\* mutated one, at set_head, add_tag_to_head, add_tag_to_body or +, renders
\* what it rendered before, and so does the page unless the mutated element
\* is its installed head or body (SpecAddTag).
C23_ByValue ==
    [][ last'.op \in {"add_content", "add_property", "add_properties"}
        => /\ Len(elems') = Len(elems)
           /\ \A j \in 1..Len(elems) :
                 j /= last'.id
                 => elems'[j] = elems[j] /\ Render(elems'[j]) = Render(elems[j])
           /\ (page.made /\ last'.id \notin {page.head, page.body})
              => PageRender(page', elems') = PageRender(page, elems) ]_vars

\* C23 witness: an element whose string form is part of the content of
\* another element was given more content, and renders differently.
C23_Witness ==
    /\ last.op = "add_content" /\ last.status = "ok"
    /\ Render(elems[last.id]) /= Render(last.heap0[last.id])
    /\ \E j \in 1..Len(elems) :
          /\ j /= last.id
          /\ Contains(elems[j].tag_content, Render(last.heap0[last.id]))

\* c is an upper-case letter
IsUpper(c) ==
    c \in { "A","B","C","D","E","F","G","H","I","J","K","L","M",
            "N","O","P","Q","R","S","T","U","V","W","X","Y","Z" }

\* the element e has a tag name without upper-case letters, and renders it
\* in its opening tag and, when it has one, in its closing tag
LowerCased(e) ==
    /\ \A k \in 1..Len(e.tag_name) : ~IsUpper(e.tag_name[k])
    /\ SubSeq(Render(e), 1, Len(e.tag_name) + 1) = <<"<">> \o e.tag_name
    /\ Render(e)[Len(e.tag_name) + 2] \in {" ", ">"}
    /\ e.has_end_tag => EndsWith(Render(e), CloseTag(e.tag_name))

C25_AddClosed ==
    last.op = "add" => last.status = "ok" /\ last.elem /= NoElem

\* C26: set_head, set_body, add_tag_to_head and add_tag_to_body return the
\* element the page has installed; add_content with a non-empty str on the
\* installed head or body changes what the page renders, and add_content on
\* any other element, a replaced head or body among them, does not
\* (SpecInstalled).
C26_InstalledElement ==
    [][ /\ (last'.op \in {"set_head", "add_tag_to_head"} /\ last'.status = "ok")
           => last'.id = page'.head /\ last'.elem = elems'[page'.head]
        /\ (last'.op \in {"set_body", "add_tag_to_body"} /\ last'.status = "ok")
           => last'.id = page'.body /\ last'.elem = elems'[page'.body]
        /\ (page.made /\ last'.op = "add_content" /\ last'.status = "ok")
           => LET before == PageRender(page, elems)
                  after == PageRender(page', elems')
              IN  /\ page' = page
                  /\ (last'.id \in {page.head, page.body}
                      /\ elems'[last'.id].tag_content /= elems[last'.id].tag_content)
                     => after /= before
                  /\ last'.id \notin {page.head, page.body} => after = before ]_vars

\* C26 witness: the head that set_head returned, in the place of an earlier
\* head, was given content, and the page renders the content.
C26_Witness ==
    /\ last.op = "add_content" /\ last.status = "ok"
    /\ page.made /\ last.id = page.head /\ page.head > page.body
    /\ PageRender(page, elems) /= PageRender(last.page0, last.heap0)

\* C27: set_head and add_tag_to_head leave the page's body, the body element
\* and the language as they were; set_body and add_tag_to_body leave the
\* head, the head element and the language as they were (SpecPage).
C27_PageFrame ==
    /\ last.op \in {"set_head", "add_tag_to_head"}
       => /\ page.body = last.page0.body
          /\ elems[page.body] = last.heap0[page.body]
          /\ page.lang = last.page0.lang
    /\ last.op \in {"set_body", "add_tag_to_body"}
       => /\ page.head = last.page0.head
          /\ elems[page.head] = last.heap0[page.head]
          /\ page.lang = last.page0.lang

\* C27 witness: set_head replaced the head of a page whose body had content
\* and whose language is not the default.
C27_Witness ==
    /\ last.op = "set_head" /\ last.status = "ok"
    /\ page.head /= last.page0.head
    /\ elems[page.body].tag_content /= <<>>
    /\ page.lang = S_fr

\* C28: when set_head or set_body raises, the page has the head and the body
\* it had, no element has changed, and the page renders what it rendered
\* before the call (SpecPage).
C28_UnchangedOnError ==
    (last.op \in {"set_head", "set_body"} /\ last.status /= "ok")
    => /\ page = last.page0
       /\ elems = last.heap0
       /\ last.elem = NoElem
       /\ PageRender(page, elems) = PageRender(last.page0, last.heap0)

\* C28 witness: set_head with style=5 raised TypeError on a page whose head
\* had been given content.
C28_Witness ==
    /\ last.op = "set_head" /\ last.status = "TypeError"
    /\ KwHas(last.call.kw, S_style)
    /\ elems[page.head].tag_content /= <<>>

\* the call of Element recorded in last succeeded and passed the keyword
\* style with a str or a mapping
StyleCall ==
    /\ last.op = "Element" /\ last.status = "ok"
    /\ KwHas(last.call.kw, S_style)
    /\ KwGet(last.call.kw, S_style).kind \in {"str", "dict"}

\* the style text of the value v of the keyword style
StyleOf(v) == IF v.kind = "str" THEN v.s ELSE TrimmedDecls(v.d, 1)

\* the keywords of the call recorded in last that are attributes, style apart
OtherKw == KwDel(BindElement(last.call).props, S_style)

\* C29 as claimed: a non-empty style given at construction is the first
\* attribute and the other keywords follow in keyword order; with an empty
\* style the element has no style attribute at all (SpecInit).
C29_Original ==
    StyleCall
    => LET v == KwGet(last.call.kw, S_style)
       IN  /\ StyleOf(v) /= <<>>
              => last.elem.props
                   = Attr(S_style, StyleOf(v)) \o <<" ">> \o AttrsOf(OtherKw, 1, last.heap0)
           /\ StyleOf(v) = <<>> => AttrCount(last.elem.props, S_style) = 0

\* C29 as amended: a non-empty style given at construction is the first
\* attribute and the other keywords follow in keyword order; an empty style
\* adds no attribute: the attributes are the other keywords alone, and none
\* of them is a style attribute unless a keyword's name normalises to style
\* (SpecInit).
C29_StyleFirst ==
    StyleCall
    => LET v == KwGet(last.call.kw, S_style)
       IN  /\ StyleOf(v) /= <<>>
              => last.elem.props
                   = Attr(S_style, StyleOf(v)) \o <<" ">> \o AttrsOf(OtherKw, 1, last.heap0)
           /\ StyleOf(v) = <<>>
              => /\ last.elem.props = AttrsOf(OtherKw, 1, last.heap0)
                 /\ KwCount(OtherKw, S_style) = 0
                    => AttrCount(last.elem.props, S_style) = 0

\* C29 witness: style was given between two other keywords and is rendered
\* before both.
C29_Witness ==
    /\ StyleCall
    /\ Len(last.call.kw) = 3 /\ last.call.kw[2][1] = S_style
    /\ SubSeq(last.elem.props, 1, 7) = <<"s","t","y","l","e","=","\"">>
    /\ EndsWith(Render(last.elem), <<" ">> \o Attr(<<"d","a","t","a","-","x">>, <<"v">>)
                                   \o <<">">> \o CloseTag(S_div))


\* C30: Style(selector=declarations, ...) with str or mapping values renders
\* a style element whose content, between <style> and </style>, is the
\* concatenation of 'selector declarations' for each keyword, with nothing
\* rendered as an attribute; a value that is neither a str nor a mapping
\* raises TypeError (SpecTags).
C30_StyleContent ==
    last.op = "Style"
    => IF \E i \in 1..Len(last.call.kw) :
              last.call.kw[i][2].kind \notin {"dict", "str"}
       THEN last.status = "TypeError"
       ELSE /\ last.status = "ok"
            /\ Render(last.elem)
                 = OpenTag(S_style) \o StyleText(last.call.kw, 1) \o CloseTag(S_style)

=============================================================================
